---- MODULE Spec2Model ----
(***************************************************************************)
(* Model of the booking aggregation engine:                                *)
(*   BookingAggregator      (src/src/services/travelIntelligence.ts)       *)
(*   RealBookingAggregator  (src/src/services/realBookingAggregator.ts)    *)
(*   DataNormalizer         (src/unnamed/part_002)                         *)
(*                                                                         *)
(* JavaScript values are modelled as follows.  A string the code inspects  *)
(* character by character (names, durations, special deals) is a sequence  *)
(* of one-character strings.  An object is a record; a property the object *)
(* does not have is a field outside the record's DOMAIN, and reading it    *)
(* yields undefined (Has).  A value whose type the code tests is tagged:   *)
(* [t |-> "num", n |-> 90], [t |-> "str", s |-> <<"9","0","m">>].          *)
(* A function that can throw returns Ok(value) or Throw, and every caller  *)
(* that has no try/catch propagates Throw.                                 *)
(***************************************************************************)
EXTENDS Integers, Sequences, FiniteSets, TLC

(***************************************************************************)
(* Bounds of the model.                                                    *)
(***************************************************************************)
\* the clock advances in steps of half a TTL, at most MaxTicks times
MaxTicks == 3
\* number of search calls made in one behaviour of the cache specification
MaxSearches == 2
\* number of search calls made in one behaviour of the fan-out specification
MaxFanSearches == 1

(***************************************************************************)
(* Generic helpers.                                                        *)
(***************************************************************************)
Has(obj, f) == f \in DOMAIN obj

\* the outcome of a call that may throw: Ok(value), or Throw
Ok(v) == [ok |-> TRUE, val |-> v]
Throw == [ok |-> FALSE]
IsThrow(r) == ~r.ok

Num(n) == [t |-> "num", n |-> n]
Str(s) == [t |-> "str", s |-> s]

Range(s) == {s[i] : i \in 1..Len(s)}

\* const x = v; return F(x): v is evaluated once, and F reads its value
With(v, F(_)) == CHOOSE r \in {F(x) : x \in {v}} : TRUE

RECURSIVE Concat(_)
\* [].push(...a, ...b, ...): the concatenation of a sequence of sequences
Concat(ss) == IF ss = <<>> THEN <<>> ELSE Head(ss) \o Concat(Tail(ss))

RECURSIVE InsertSorted(_, _)
\* insert index x after every index whose key is <= x's key (stable)
InsertSorted(x, s) ==
  IF s = <<>> THEN <<x>>
  ELSE IF Head(s)[2] <= x[2] THEN <<Head(s)>> \o InsertSorted(x, Tail(s))
       ELSE <<x>> \o s

RECURSIVE SortPairs(_)
\* sorts a sequence of <<index, key>> pairs by key, ascending and stable
SortPairs(s) ==
  IF s = <<>> THEN <<>>
  ELSE With(SortPairs(SubSeq(s, 1, Len(s) - 1)),
            LAMBDA sorted : InsertSorted(s[Len(s)], sorted))

\* Array.prototype.sort((a, b) => key(a) - key(b)): ascending and stable
SortBy(s, Key(_)) ==
  With(s, LAMBDA a :
    With(SortPairs([i \in 1..Len(a) |-> <<i, Key(a[i])>>]),
         LAMBDA sorted : [i \in 1..Len(a) |-> a[sorted[i][1]]]))

\* Array.prototype.reduce(f) without initial value on the non-empty array s
Reduce(s, F(_, _)) ==
  LET acc[i \in 1..Len(s)] ==
        IF i = 1 THEN s[1] ELSE With(acc[i - 1], LAMBDA best : F(best, s[i]))
  IN acc[Len(s)]

RECURSIVE Distinct(_)
\* the distinct elements of ks in order of first appearance
Distinct(ks) ==
  IF ks = <<>> THEN <<>>
  ELSE With(Distinct(SubSeq(ks, 1, Len(ks) - 1)),
            LAMBDA rest : IF ks[Len(ks)] \in Range(rest) THEN rest
                          ELSE Append(rest, ks[Len(ks)]))

\* the keys of a Map filled by visiting s in order: first appearance order
DistinctKeys(s, Key(_)) ==
  With(s, LAMBDA a : With([i \in 1..Len(a) |-> Key(a[i])], Distinct))

\* the members of one Map group, in insertion order
GroupOf(s, Key(_), k) == SelectSeq(s, LAMBDA x : Key(x) = k)

(***************************************************************************)
(* Strings.                                                                *)
(***************************************************************************)
Digits == {"0", "1", "2", "3", "4", "5", "6", "7", "8", "9"}

DigitVal(c) ==
  CASE c = "0" -> 0 [] c = "1" -> 1 [] c = "2" -> 2 [] c = "3" -> 3
    [] c = "4" -> 4 [] c = "5" -> 5 [] c = "6" -> 6 [] c = "7" -> 7
    [] c = "8" -> 8 [] c = "9" -> 9

\* String.prototype.toLowerCase on one character (the letters the model uses)
LowerChar(c) ==
  CASE c = "A" -> "a" [] c = "B" -> "b" [] c = "D" -> "d" [] c = "F" -> "f"
    [] c = "G" -> "g" [] c = "H" -> "h" [] c = "I" -> "i" [] c = "K" -> "k"
    [] c = "M" -> "m" [] c = "N" -> "n" [] c = "P" -> "p" [] c = "R" -> "r"
    [] c = "S" -> "s" [] c = "T" -> "t" [] c = "U" -> "u" [] c = "W" -> "w"
    [] OTHER -> c

toLowerCase(s) == [i \in 1..Len(s) |-> LowerChar(s[i])]

\* String.prototype.includes
includes(s, sub) ==
  \E i \in 1..(Len(s) - Len(sub) + 1) : SubSeq(s, i, i + Len(sub) - 1) = sub

RECURSIVE ParseInt(_, _)
\* parseInt of a string of digits, acc the value of the digits read so far
ParseInt(s, acc) ==
  IF s = <<>> THEN acc ELSE ParseInt(Tail(s), 10 * acc + DigitVal(Head(s)))

\* the positions (i, j) such that s[i..j-1] are digits and s[j] = unit
UnitMatches(s, unit) ==
  {p \in (1..Len(s)) \X (1..Len(s)) :
     /\ p[1] < p[2]
     /\ s[p[2]] = unit
     /\ \A k \in p[1]..(p[2] - 1) : s[k] \in Digits}

\* (s.match(/(\d+)<unit>/) || [])[1], then parseInt(group || '0'):
\* leftmost match, greedy in the digits to its right
MatchUnit(s, unit) ==
  LET ms == UnitMatches(s, unit)
  IN IF ms = {} THEN 0
     ELSE LET i == CHOOSE i \in {p[1] : p \in ms} : \A q \in ms : i <= q[1]
              j == CHOOSE j \in {p[2] : p \in {q \in ms : q[1] = i}} :
                     \A q \in ms : q[1] = i => j <= q[2]
          IN ParseInt(SubSeq(s, i, j - 1), 0)

(***************************************************************************)
(* DataNormalizer (src/unnamed/part_002).                                  *)
(* Omitted from the normalized records: id (a random suffix), bookingUrl,  *)
(* location, amenities, roomTypes, images, baggage, refundable, layovers,  *)
(* the arrival of a segment: no operation of the aggregator reads them.    *)
(* lastUpdated is the clock value at normalization.                        *)
(***************************************************************************)
\* parseDuration(duration): d is the argument when defined, a tagged value
parseDurationDefined(d) ==
  IF d.t = "num" THEN d.n
  ELSE (MatchUnit(d.s, "h") * 60) + MatchUnit(d.s, "m")

\* parseDuration(obj.duration): duration.match on undefined throws TypeError
parseDuration(obj, f) ==
  IF Has(obj, f) THEN Ok(parseDurationDefined(obj[f])) ELSE Throw

\* normalizeSegments(segments): map over the segments; one throw aborts the map
normalizeSegments(segments) ==
  IF \E i \in 1..Len(segments) : IsThrow(parseDuration(segments[i], "duration"))
  THEN Throw
  ELSE Ok([i \in 1..Len(segments) |->
             [from |-> [code |-> IF Has(segments[i], "fromCode") THEN segments[i].fromCode ELSE ""],
              to |-> [code |-> IF Has(segments[i], "toCode") THEN segments[i].toCode ELSE ""],
              airline |-> IF Has(segments[i], "airline") THEN segments[i].airline ELSE "",
              departure |-> [datetime |-> IF Has(segments[i], "departure")
                                          THEN segments[i].departure ELSE ""],
              duration |-> parseDuration(segments[i], "duration").val]])

\* normalizePrice / normalizeHotelPrice: price is a number or undefined in the
\* model, so amount = price when it is a number and 0 otherwise
normalizePrice(data) ==
  [amount |-> IF Has(data, "price") THEN data.price ELSE 0,
   currency |-> IF Has(data, "currency") THEN data.currency ELSE "USD"]

\* calculateTotalDuration(data)
calculateTotalDuration(data) ==
  IF Has(data, "totalDuration") THEN parseDurationDefined(data.totalDuration) ELSE 0

\* extractSpecialOffers(data): the type of each offer pushed, in order
extractSpecialOffers(data) ==
  LET first == IF Has(data, "firstTimeDeal") /\ data.firstTimeDeal
               THEN <<[type |-> "first-time"]>> ELSE <<>>
      \* if (data.discount): 0 and NaN are falsy
      disc == IF Has(data, "discount") /\ data.discount.t = "num" /\ data.discount.n # 0
              THEN <<[type |-> "discount"]>> ELSE <<>>
      OfDeal(deal) ==
        IF includes(toLowerCase(deal), <<"f", "i", "r", "s", "t">>)
        THEN <<[type |-> "first-time"]>>
        ELSE IF includes(toLowerCase(deal), <<"d", "i", "s", "c", "o", "u", "n", "t">>)
                \/ includes(deal, <<"%">>)
             THEN <<[type |-> "discount"]>> ELSE <<>>
      deals == IF Has(data, "specialDeals")
               THEN Concat([i \in 1..Len(data.specialDeals) |-> OfDeal(data.specialDeals[i])])
               ELSE <<>>
  IN first \o disc \o deals

\* normalizeFlight(data, source)
normalizeFlight(data, source, clock) ==
  LET segs == normalizeSegments(IF Has(data, "segments") THEN data.segments ELSE <<>>)
  IN IF IsThrow(segs) THEN Throw
     ELSE Ok([segments |-> segs.val,
              price |-> normalizePrice(data),
              totalDuration |-> calculateTotalDuration(data),
              source |-> source,
              lastUpdated |-> clock])

\* normalizeHotel(data, source)
normalizeHotel(data, source, clock) ==
  Ok([name |-> IF Has(data, "name") THEN data.name ELSE <<>>,
      price |-> normalizePrice(data),
      rating |-> [value |-> IF Has(data, "rating") THEN data.rating ELSE 0,
                  reviews |-> IF Has(data, "reviews") THEN data.reviews ELSE 0],
      specialOffers |-> extractSpecialOffers(data),
      source |-> source,
      lastUpdated |-> clock])

\* normalizeTransport(data, source)
normalizeTransport(data, source, clock) ==
  LET dur == parseDuration(data, "duration")
  IN IF IsThrow(dur) THEN Throw
     ELSE Ok([type |-> IF Has(data, "type") THEN data.type ELSE "bus",
              from |-> [name |-> IF Has(data, "from") THEN data.from ELSE ""],
              to |-> [name |-> IF Has(data, "to") THEN data.to ELSE ""],
              departure |-> [timezone |-> "UTC"],
              duration |-> dur.val,
              price |-> normalizePrice(data),
              source |-> source,
              lastUpdated |-> clock])

\* `${v || ''}` for a property of a normalized offer: '' when the property is
\* missing, '[object Object]' when it is an object (the only two cases for
\* from, to and departure of the three normalized shapes)
TemplateOf(obj, f) == IF Has(obj, f) THEN "[object Object]" ELSE ""

\* generateMergeKey(_result)
generateMergeKey(result) ==
  <<TemplateOf(result, "from"), "-", TemplateOf(result, "to"), "-",
    TemplateOf(result, "departure")>>

\* the reducer with the comparison inverted
CheaperInverted(best, current) ==
  IF current.price.amount > best.price.amount THEN current ELSE best

\* the reducer of mergeDuplicates: keep the first of the cheapest
Cheaper(best, current) ==
  IF current.price.amount < best.price.amount THEN current ELSE best

\* a merge that drops the first offer of a group of several, in place of
\* choosing one of them
mergeDuplicatesDroppingFirst(results) ==
  LET keys == DistinctKeys(results, generateMergeKey)
  IN Concat([i \in 1..Len(keys) |->
               LET group == GroupOf(results, generateMergeKey, keys[i])
               IN IF Len(group) = 1 THEN group ELSE Tail(group)])

\* mergeDuplicates(results)
mergeDuplicates(results) ==
  LET keys == DistinctKeys(results, generateMergeKey)
  IN [i \in 1..Len(keys) |->
        LET group == GroupOf(results, generateMergeKey, keys[i])
        IN IF Len(group) = 1 THEN group[1]
           ELSE Reduce(group, Cheaper)]

(***************************************************************************)
(* Provider adapters (realBookingAggregator.ts, 245-493).  In the source   *)
(* every adapter is a stub for a network call; here an adapter call is     *)
(* pending until it settles, and it settles rejected, fulfilled with no    *)
(* record, or fulfilled with the batch of raw records below.  Two of the   *)
(* fifteen flight adapters, one of the fifteen hotel adapters and one of   *)
(* the four experience adapters are modelled, in the order of the source.  *)
(***************************************************************************)
FlightAdapters == <<"searchSkyscanner", "searchKiwi">>
HotelAdapters == <<"searchAgoda">>
ExperienceAdapters == <<"searchViator">>

Adapters == Range(FlightAdapters) \cup Range(HotelAdapters) \cup Range(ExperienceAdapters)

Settled == {"rejected", "empty", "batch"}

\* FlightRoute records; the second Kiwi route has a segment without duration
Batch(adapter) ==
  CASE adapter = "searchSkyscanner" ->
         << [source |-> "skyscanner", totalPrice |-> 500,
             totalDuration |-> Str(<<"2", "h", " ", "3", "0", "m">>),
             segments |-> << [fromCode |-> "ATH", toCode |-> "BKK", airline |-> "TG",
                              departure |-> "2026-01-10T08:00",
                              duration |-> Str(<<"2", "h", " ", "3", "0", "m">>)] >>],
            [source |-> "skyscanner", totalPrice |-> 480,
             totalDuration |-> Str(<<"1", "5", "0", "m">>),
             segments |-> << [fromCode |-> "ATH", toCode |-> "BKK", airline |-> "QR",
                              departure |-> "2026-01-11T09:00",
                              duration |-> Num(150)] >>] >>
    [] adapter = "searchKiwi" ->
         << [source |-> "kiwi", totalPrice |-> 450,
             totalDuration |-> Str(<<"3", "h">>),
             segments |-> << [fromCode |-> "ATH", toCode |-> "BKK", airline |-> "EK",
                              departure |-> "2026-01-12T07:00",
                              duration |-> Str(<<"3", "h">>)] >>],
            [source |-> "kiwi", totalPrice |-> 470,
             totalDuration |-> Str(<<"3", "h">>),
             segments |-> << [fromCode |-> "ATH", toCode |-> "BKK", airline |-> "TK",
                              departure |-> "2026-01-13T07:00"] >>] >>
    [] adapter = "searchAgoda" ->
         << [source |-> "agoda", name |-> <<"G", "P">>, price |-> 150,
             rating |-> 4, reviews |-> 10, specialDeals |-> <<>>],
            [source |-> "agoda", name |-> <<"I", "n", "n">>, price |-> 80,
             rating |-> 3, reviews |-> 5, specialDeals |-> <<>>],
            [source |-> "agoda", name |-> <<"g", "p">>, price |-> 100,
             rating |-> 4, reviews |-> 20,
             specialDeals |-> << <<"F", "i", "r", "s", "t">> >>] >>
    [] adapter = "searchViator" ->
         << [source |-> "viator", name |-> <<"T", "o", "u", "r">>, price |-> 30,
             duration |-> Str(<<"9", "0", "m">>), rating |-> 5, reviews |-> 7] >>

\* the value of a fulfilled adapter promise
ValueOf(adapter, status) == IF status = "batch" THEN Batch(adapter) ELSE <<>>

(***************************************************************************)
(* RealBookingAggregator (realBookingAggregator.ts).  st maps every        *)
(* adapter of the group to its settled status.                             *)
(***************************************************************************)
\* results.forEach(result => { if fulfilled: acc.push(...result.value) })
Collect(group, st) ==
  Concat([i \in 1..Len(group) |->
            IF st[group[i]] = "rejected" THEN <<>> ELSE ValueOf(group[i], st[group[i]])])

TotalPriceOf(r) == r.totalPrice
PriceOf(r) == r.price

\* searchFlights with flexible = false
searchFlights(st) == SortBy(Collect(FlightAdapters, st), TotalPriceOf)

\* the first two of the eight hubs of findMultiCityRoutes, in list order
Hubs == <<"BKK", "SIN">>

\* the call searchRoute(from, hub) (leg 1) or searchRoute(hub, to) (leg 2)
LegOf(hub, leg) ==
  CASE hub = "BKK" /\ leg = 1 -> "searchRoute(from,BKK)"
    [] hub = "BKK" /\ leg = 2 -> "searchRoute(BKK,to)"
    [] hub = "SIN" /\ leg = 1 -> "searchRoute(from,SIN)"
    [] hub = "SIN" /\ leg = 2 -> "searchRoute(SIN,to)"

Legs == {LegOf(Hubs[h], leg) : h \in 1..Len(Hubs), leg \in {1, 2}}

\* the routes a fulfilled searchRoute returns when it returns any
RouteBatch(call) ==
  CASE call = "searchRoute(from,BKK)" ->
         << [source |-> "route", totalPrice |-> 300, layovers |-> 0,
             totalDuration |-> Str(<<"9", "h">>),
             segments |-> << [fromCode |-> "ATH", toCode |-> "BKK"] >>],
            [source |-> "route", totalPrice |-> 320, layovers |-> 1,
             totalDuration |-> Str(<<"1", "2", "h">>),
             segments |-> << [fromCode |-> "ATH", toCode |-> "DOH"],
                             [fromCode |-> "DOH", toCode |-> "BKK"] >>] >>
    [] call = "searchRoute(BKK,to)" ->
         << [source |-> "route", totalPrice |-> 90, layovers |-> 0,
             totalDuration |-> Str(<<"1", "h">>),
             segments |-> << [fromCode |-> "BKK", toCode |-> "VTE"] >>] >>
    [] call = "searchRoute(from,SIN)" ->
         << [source |-> "route", totalPrice |-> 350, layovers |-> 0,
             totalDuration |-> Str(<<"1", "1", "h">>),
             segments |-> << [fromCode |-> "ATH", toCode |-> "SIN"] >>] >>
    [] call = "searchRoute(SIN,to)" ->
         << [source |-> "route", totalPrice |-> 120, layovers |-> 0,
             totalDuration |-> Str(<<"3", "h">>),
             segments |-> << [fromCode |-> "SIN", toCode |-> "VTE"] >>] >>

\* addDurations(dur1, dur2): the placeholder returns dur1
addDurations(dur1, dur2) == dur1

\* the route combined of route1[0] and route2[0], lines 121-130
Combined(route1, route2) ==
  [segments |-> route1[1].segments \o route2[1].segments,
   totalPrice |-> route1[1].totalPrice + route2[1].totalPrice,
   totalDuration |-> addDurations(route1[1].totalDuration, route2[1].totalDuration),
   layovers |-> route1[1].layovers + route2[1].layovers + 1,
   source |-> "multi-city"]

\* the value an awaited searchRoute gave, for a lookup that was made and did
\* not reject
RoutesOf(st, call) == IF st[call] = "batch" THEN RouteBatch(call) ELSE <<>>

\* what the loop body of findMultiCityRoutes pushes for one hub, given how
\* its lookups settled: nothing when the first rejected (the second is then
\* not made) or the second rejected, else the combined route when both
\* returned a route
RoutesViaHub(st, hub) ==
  LET leg1 == LegOf(hub, 1)
      leg2 == LegOf(hub, 2)
  IN IF leg1 \in DOMAIN st /\ leg2 \in DOMAIN st
        /\ st[leg1] # "rejected" /\ st[leg2] # "rejected"
        /\ Len(RoutesOf(st, leg1)) > 0 /\ Len(RoutesOf(st, leg2)) > 0
     THEN <<Combined(RoutesOf(st, leg1), RoutesOf(st, leg2))>>
     ELSE <<>>

\* findMultiCityRoutes, once its loop is over
findMultiCityRoutes(st) ==
  Concat([h \in 1..Len(Hubs) |-> RoutesViaHub(st, Hubs[h])])

\* the hubs whose first lookup was made
HubsTried(st) == {h \in 1..Len(Hubs) : LegOf(Hubs[h], 1) \in DOMAIN st}

\* NextStep with the try around the whole loop: a rejected lookup ends
\* findMultiCityRoutes
NextStepAbortingLoop(flexible, st) ==
  IF ~flexible THEN [return |-> TRUE]
  ELSE IF HubsTried(st) = {} THEN [return |-> FALSE, call |-> LegOf(Hubs[1], 1)]
  ELSE LET h == CHOOSE h \in HubsTried(st) : \A g \in HubsTried(st) : g <= h
           leg1 == LegOf(Hubs[h], 1)
           leg2 == LegOf(Hubs[h], 2)
       IN IF leg2 \notin DOMAIN st /\ st[leg1] # "rejected"
          THEN [return |-> FALSE, call |-> leg2]
          ELSE IF h < Len(Hubs) /\ st[leg1] # "rejected" /\ st[leg2] # "rejected"
               THEN [return |-> FALSE, call |-> LegOf(Hubs[h + 1], 1)]
               ELSE [return |-> TRUE]

\* what searchFlights does when the await it is suspended at is over, given
\* the calls made so far and how they settled: return (lines 95-96), or make
\* the next searchRoute call of findMultiCityRoutes (lines 116-117) - the
\* second lookup of the hub unless the first rejected (catch, line 133), else
\* the first lookup of the next hub
NextStep(flexible, st) ==
  IF ~flexible THEN [return |-> TRUE]
  ELSE IF HubsTried(st) = {} THEN [return |-> FALSE, call |-> LegOf(Hubs[1], 1)]
  ELSE LET h == CHOOSE h \in HubsTried(st) : \A g \in HubsTried(st) : g <= h
           leg1 == LegOf(Hubs[h], 1)
           leg2 == LegOf(Hubs[h], 2)
       IN IF leg2 \notin DOMAIN st /\ st[leg1] # "rejected"
          THEN [return |-> FALSE, call |-> leg2]
          ELSE IF h < Len(Hubs)
               THEN [return |-> FALSE, call |-> LegOf(Hubs[h + 1], 1)]
               ELSE [return |-> TRUE]

\* the value searchFlights returns, lines 83-96
searchFlightsRoutes(flexible, st) ==
  SortBy(Collect(FlightAdapters, st)
           \o (IF flexible THEN findMultiCityRoutes(st) ELSE <<>>),
         TotalPriceOf)

\* obj with property f set to v
SetField(obj, f, v) ==
  [g \in DOMAIN obj \cup {f} |-> IF g = f THEN v ELSE obj[g]]

\* the discount with Math.floor in place of Math.round
DiscountOfTruncated(maxPrice, price) ==
  IF maxPrice = 0 THEN [t |-> "NaN"]
  ELSE Num((100 * (maxPrice - price)) \div maxPrice)

\* Math.round(((maxPrice - price) / maxPrice) * 100) for prices >= 0:
\* NaN when maxPrice is 0, else the nearest integer, halves rounded up
DiscountOf(maxPrice, price) ==
  IF maxPrice = 0 THEN [t |-> "NaN"]
  ELSE Num((200 * (maxPrice - price) + maxPrice) \div (2 * maxPrice))

LowerName(deal) == toLowerCase(deal.name)

CheaperDeal(best, current) == IF current.price < best.price THEN current ELSE best

MaxOf(S) == CHOOSE m \in S : \A x \in S : x <= m

\* identifyBestDeals(deals)
identifyBestDeals(deals) ==
  LET keys == DistinctKeys(deals, LowerName)
      BestOf(k) ==
        LET hotelDeals == GroupOf(deals, LowerName, k)
            cheapest == Reduce(hotelDeals, CheaperDeal)
            first == \E i \in 1..Len(hotelDeals) :
                       \E j \in 1..Len(hotelDeals[i].specialDeals) :
                         LET sd == toLowerCase(hotelDeals[i].specialDeals[j])
                         IN \/ includes(sd, <<"f", "i", "r", "s", "t">>)
                            \/ includes(sd, <<"n", "e", "w", " ", "u", "s", "e", "r">>)
            marked == SetField(cheapest, "firstTimeDeal", first)
        IN IF Len(hotelDeals) > 1
           THEN SetField(marked, "discount",
                         DiscountOf(MaxOf({hotelDeals[i].price : i \in 1..Len(hotelDeals)}),
                                    cheapest.price))
           ELSE marked
  IN SortBy([i \in 1..Len(keys) |-> BestOf(keys[i])], PriceOf)

\* the array deals after identifyBestDeals(deals) returned: cheapest is an
\* element of deals, so the assignments of lines 202 and 213 write on it, and
\* it is the object pushed on bestDeals; the sort of line 219 reorders
\* bestDeals, a new array
identifyBestDealsArgument(deals) ==
  LET best == identifyBestDeals(deals)
      \* the index in deals of the cheapest of the group of deals[i]
      CheapestIndex(i) ==
        Reduce(SelectSeq([j \in 1..Len(deals) |-> j],
                         LAMBDA j : LowerName(deals[j]) = LowerName(deals[i])),
               LAMBDA b, c : IF deals[c].price < deals[b].price THEN c ELSE b)
  IN [i \in 1..Len(deals) |->
        IF CheapestIndex(i) = i
        THEN best[CHOOSE k \in 1..Len(best) : LowerName(best[k]) = LowerName(deals[i])]
        ELSE deals[i]]

\* searchHotels
searchHotels(st) == identifyBestDeals(Collect(HotelAdapters, st))

\* searchExperiences
searchExperiences(st) == SortBy(Collect(ExperienceAdapters, st), PriceOf)

(***************************************************************************)
(* BookingAggregator (travelIntelligence.ts, 252-433).                     *)
(* A BookingQuery is the sequence of its <<property, value>> pairs in the  *)
(* order the caller set them, which is the order JSON.stringify keeps.     *)
(***************************************************************************)
cacheTTL == 60 * 60 * 1000

\* query.<f>, "" standing for undefined (both are falsy)
Field(query, f) ==
  IF \E i \in 1..Len(query) : query[i][1] = f
  THEN query[CHOOSE i \in 1..Len(query) : query[i][1] = f][2]
  ELSE ""

\* generateCacheKey(query) = JSON.stringify(query): the properties in
\* insertion order, the values verbatim
generateCacheKey(query) ==
  <<"{">> \o Concat([i \in 1..Len(query) |->
                       (IF i = 1 THEN <<>> ELSE <<",">>) \o <<query[i][1], ":", query[i][2]>>])
          \o <<"}">>

\* the array `searches` of searchAllSources: the adapter groups in push order
Searches(query) ==
  LET type == Field(query, "type")
  IN (IF type \in {"flight", "all"} /\ Field(query, "from") # "" THEN <<"flights">> ELSE <<>>)
     \o (IF type \in {"hotel", "all"} THEN <<"hotels">> ELSE <<>>)
     \o (IF type \in {"bus", "train", "ferry", "all"} THEN <<"transport">> ELSE <<>>)
     \o (IF type \in {"experience", "all"} THEN <<"experiences">> ELSE <<>>)

\* the adapters one group invokes
AdaptersOf(group) ==
  CASE group = "flights" -> Range(FlightAdapters)
    [] group = "hotels" -> Range(HotelAdapters)
    [] group = "transport" -> {}
    [] group = "experiences" -> Range(ExperienceAdapters)

\* every adapter invoked for the query
Invoked(query) == UNION {AdaptersOf(g) : g \in Range(Searches(query))}

\* the value a group's promise is fulfilled with
GroupValue(group, st) ==
  CASE group = "flights" -> searchFlights(st)
    [] group = "hotels" -> searchHotels(st)
    [] group = "transport" -> <<>>
    [] group = "experiences" -> searchExperiences(st)

\* searchAllSources, after Promise.allSettled: results[i] read by position
searchAllSources(query, st) ==
  LET searches == Searches(query)
      Slot(i) == IF i <= Len(searches) THEN GroupValue(searches[i], st) ELSE <<>>
  IN [flights |-> Slot(1), hotels |-> Slot(2),
      transport |-> Slot(3), experiences |-> Slot(4)]

\* raw.map(x => Normalize(x, x.source || 'unknown')): a throw aborts the map
MapNormalize(raw, Normalize(_, _, _), clock) ==
  LET out == [i \in 1..Len(raw) |->
                Normalize(raw[i], IF Has(raw[i], "source") THEN raw[i].source ELSE "unknown", clock)]
  IN IF \E i \in 1..Len(raw) : IsThrow(out[i]) THEN Throw
     ELSE Ok([i \in 1..Len(raw) |-> out[i].val])

\* normalizeAll(results)
normalizeAll(results, clock) ==
  LET flights == MapNormalize(results.flights, normalizeFlight, clock)
      hotels == MapNormalize(results.hotels, normalizeHotel, clock)
      transport == MapNormalize(results.transport, normalizeTransport, clock)
  IN IF IsThrow(flights) \/ IsThrow(hotels) \/ IsThrow(transport) THEN Throw
     ELSE Ok([flights |-> flights.val, hotels |-> hotels.val,
              transport |-> transport.val, experiences |-> results.experiences])

\* mergeAll(normalized)
mergeAll(normalized) ==
  [flights |-> mergeDuplicates(normalized.flights),
   hotels |-> mergeDuplicates(normalized.hotels),
   transport |-> mergeDuplicates(normalized.transport),
   experiences |-> normalized.experiences]

\* currentScore > bestScore, score = rating.value * rating.reviews / price.amount
\* in IEEE arithmetic: x / 0 is Infinity for x > 0 and NaN for x = 0
ScoreGreater(current, best) ==
  LET cn == current.rating.value * current.rating.reviews
      cd == current.price.amount
      bn == best.rating.value * best.rating.reviews
      bd == best.price.amount
  IN IF (cd = 0 /\ cn = 0) \/ (bd = 0 /\ bn = 0) THEN FALSE
     ELSE IF bd = 0 THEN FALSE
     ELSE IF cd = 0 THEN TRUE
     ELSE cn * bd > bn * cd

BetterHotel(best, current) == IF ScoreGreater(current, best) THEN current ELSE best

\* findBestDeals, lines 376-400: the deals of the hotels
bestHotelDeals(merged) ==
  LET firstTime == SelectSeq(merged.hotels,
                             LAMBDA h : \E i \in 1..Len(h.specialOffers) :
                                           h.specialOffers[i].type = "first-time")
  IN IF Len(merged.hotels) > 0
     THEN <<[type |-> "hotel", item |-> Reduce(merged.hotels, BetterHotel),
             reason |-> "Best value (rating/price)"]>>
          \o (IF firstTime # <<>>
              THEN <<[type |-> "hotel", item |-> Head(firstTime),
                      reason |-> "First-time customer special"]>>
              ELSE <<>>)
     ELSE <<>>

\* findBestDeals without the length test of line 365, the cheapest of no
\* flight being merged.flights[0], which is undefined
findBestDealsUnguarded(merged) ==
  <<[type |-> "flight",
     item |-> IF Len(merged.flights) > 0 THEN Reduce(merged.flights, Cheaper)
              ELSE [undefined |-> TRUE],
     reason |-> "Lowest price"]>>
  \o bestHotelDeals(merged)

\* findBestDeals(merged)
findBestDeals(merged) ==
  (IF Len(merged.flights) > 0
   THEN <<[type |-> "flight", item |-> Reduce(merged.flights, Cheaper),
           reason |-> "Lowest price"]>>
   ELSE <<>>)
  \o bestHotelDeals(merged)

SourceOf(r) == r.source

\* extractSources(results): Array.from of the Set, in insertion order
extractSources(results) ==
  DistinctKeys(results.flights \o results.hotels \o results.transport, SourceOf)

\* search, lines 273-293: the aggregated result
Aggregate(query, st, clock) ==
  With(searchAllSources(query, st), LAMBDA results :
    With(normalizeAll(results, clock), LAMBDA normalized :
      IF IsThrow(normalized) THEN Throw
      ELSE With(mergeAll(normalized.val), LAMBDA merged :
             Ok([flights |-> merged.flights,
                 hotels |-> merged.hotels,
                 transport |-> merged.transport,
                 experiences |-> merged.experiences,
                 bestDeals |-> findBestDeals(merged),
                 sources |-> extractSources(results),
                 lastUpdated |-> clock]))))

(***************************************************************************)
(* The queries the callers issue.                                          *)
(***************************************************************************)
QHotel == << <<"type", "hotel">>, <<"to", "BKK">> >>
\* the same values as QHotel, set in the other order
QHotelSwapped == << <<"to", "BKK">>, <<"type", "hotel">> >>
\* the same values as QHotel up to the casing of the destination
QHotelLower == << <<"type", "hotel">>, <<"to", "bkk">> >>
QFlight == << <<"type", "flight">>, <<"from", "ATH">>, <<"to", "BKK">> >>
\* kind flight without origin
QFlightNoFrom == << <<"type", "flight">>, <<"to", "BKK">> >>
\* empty destination
QNoDest == << <<"type", "hotel">>, <<"to", "">> >>
QAll == << <<"type", "all">>, <<"from", "ATH">>, <<"to", "BKK">> >>
QAllNoFrom == << <<"type", "all">>, <<"to", "BKK">> >>
QExperience == << <<"type", "experience">>, <<"to", "BKK">> >>
QBus == << <<"type", "bus">>, <<"to", "BKK">> >>

\* the queries of the cache specification
CacheQueries == {QHotel, QHotelSwapped, QHotelLower, QFlight}
\* the queries of the fan-out specification
FanQueries == {QHotel, QFlight, QFlightNoFrom, QNoDest, QAll, QAllNoFrom,
               QExperience, QBus}
Queries == CacheQueries \cup FanQueries

(***************************************************************************)
(* State.                                                                  *)
(***************************************************************************)
VARIABLES
  now,      \* Date.now(), in milliseconds
  cache,    \* this.cache: key -> [data: reference, timestamp]
  heap,     \* the AggregatedResults objects allocated so far, by reference
  pc,       \* per call: "idle", "waiting" (at the await of line 330), "done"
  query,    \* per call: the argument of search
  st,       \* per call: the status of every adapter call it made
  ret,      \* per call: how the promise returned by search settled
  hit,      \* per call: whether search returned at line 269
  started,  \* per caller: number of search calls made so far
  invoked,  \* number of adapter calls made so far
  input,    \* the argument of a direct call of an operation, as passed
  output    \* what that call returned, and its argument after the call

vars == <<now, cache, heap, pc, query, st, ret, hit, started, invoked, input, output>>

\* the callers; a caller makes its next call after the previous one returned
CallIds == {1}
Calls == DOMAIN pc

NoQuery == <<>>
NoRet == [status |-> "none"]
\* no merge operation called directly
NoInput == [op |-> "none"]
NoOutput == [returned |-> FALSE]

Init ==
  /\ now = 0
  /\ cache = <<>>
  /\ heap = <<>>
  /\ pc = [c \in CallIds |-> "idle"]
  /\ query = [c \in CallIds |-> NoQuery]
  /\ st = [c \in CallIds |-> <<>>]
  /\ ret = [c \in CallIds |-> NoRet]
  /\ hit = [c \in CallIds |-> FALSE]
  /\ started = [c \in CallIds |-> 0]
  /\ invoked = 0
  /\ input = NoInput
  /\ output = NoOutput

RECURSIVE SumOver(_, _)
SumOver(f, S) ==
  IF S = {} THEN 0 ELSE LET x == CHOOSE x \in S : TRUE IN f[x] + SumOver(f, S \ {x})

\* number of search calls made so far
TotalStarted == SumOver(started, DOMAIN started)

\* the cache lookup with <= in place of <
CacheHitInclusive(k) == k \in DOMAIN cache /\ now - cache[k].timestamp <= cacheTTL

\* the cache lookup of search, lines 266-268
CacheHit(k) == k \in DOMAIN cache /\ now - cache[k].timestamp < cacheTTL

\* this.cache.set(k, entry)
CacheSet(k, entry) ==
  [x \in DOMAIN cache \cup {k} |-> IF x = k THEN entry ELSE cache[x]]

\* a hit that renews the timestamp of the entry it read
ReturnCachedRefreshing(c, q) ==
  /\ pc' = [pc EXCEPT ![c] = "done"]
  /\ ret' = [ret EXCEPT ![c] = [status |-> "resolved",
                                ref |-> cache[generateCacheKey(q)].data]]
  /\ hit' = [hit EXCEPT ![c] = TRUE]
  /\ st' = [st EXCEPT ![c] = <<>>]
  /\ cache' = [cache EXCEPT ![generateCacheKey(q)].timestamp = now]
  /\ UNCHANGED <<heap, invoked>>

\* search(q) on a hit, lines 266-269: return cached.data
ReturnCached(c, q) ==
  /\ pc' = [pc EXCEPT ![c] = "done"]
  /\ ret' = [ret EXCEPT ![c] = [status |-> "resolved",
                                ref |-> cache[generateCacheKey(q)].data]]
  /\ hit' = [hit EXCEPT ![c] = TRUE]
  /\ st' = [st EXCEPT ![c] = <<>>]
  /\ UNCHANGED <<cache, heap, invoked>>

\* search(q) on a miss, lines 273 and 303-330: every adapter call of
\* searchAllSources is made, then search awaits them
StartFanOut(c, q) ==
  /\ pc' = [pc EXCEPT ![c] = "waiting"]
  /\ ret' = [ret EXCEPT ![c] = NoRet]
  /\ hit' = [hit EXCEPT ![c] = FALSE]
  /\ st' = [st EXCEPT ![c] = [a \in Invoked(q) |-> "pending"]]
  /\ invoked' = invoked + Cardinality(Invoked(q))
  /\ UNCHANGED <<cache, heap>>

\* search(q) up to its first await
Search(c, q, max) ==
  /\ pc[c] \in {"idle", "done"}
  /\ TotalStarted < max
  /\ started' = [started EXCEPT ![c] = @ + 1]
  /\ query' = [query EXCEPT ![c] = q]
  /\ IF CacheHit(generateCacheKey(q)) THEN ReturnCached(c, q) ELSE StartFanOut(c, q)
  /\ UNCHANGED <<now, input, output>>

\* the promise of one adapter call settles
Settle(c, a, outcome) ==
  /\ pc[c] = "waiting"
  /\ a \in DOMAIN st[c]
  /\ st[c][a] = "pending"
  /\ st' = [st EXCEPT ![c][a] = outcome]
  /\ UNCHANGED <<now, cache, heap, pc, query, ret, hit, started, invoked, input, output>>

\* a resumption that stores no result without offers
JoinSkippingEmpty(c) ==
  /\ pc[c] = "waiting"
  /\ \A a \in DOMAIN st[c] : st[c][a] \in Settled
  /\ pc' = [pc EXCEPT ![c] = "done"]
  /\ LET aggregated == Aggregate(query[c], st[c], now)
     IN IF IsThrow(aggregated)
        THEN /\ ret' = [ret EXCEPT ![c] = [status |-> "rejected"]]
             /\ UNCHANGED <<cache, heap>>
        ELSE /\ heap' = Append(heap, aggregated.val)
             /\ cache' = IF aggregated.val.flights = <<>> /\ aggregated.val.hotels = <<>>
                            /\ aggregated.val.experiences = <<>>
                         THEN cache
                         ELSE CacheSet(generateCacheKey(query[c]),
                                       [data |-> Len(heap) + 1, timestamp |-> now])
             /\ ret' = [ret EXCEPT ![c] = [status |-> "resolved", ref |-> Len(heap) + 1]]
  /\ UNCHANGED <<now, query, st, hit, started, invoked, input, output>>

\* a resumption that drops the entry of its key when it rejects
JoinEvictingOnError(c) ==
  /\ pc[c] = "waiting"
  /\ \A a \in DOMAIN st[c] : st[c][a] \in Settled
  /\ pc' = [pc EXCEPT ![c] = "done"]
  /\ LET aggregated == Aggregate(query[c], st[c], now)
     IN IF IsThrow(aggregated)
        THEN /\ ret' = [ret EXCEPT ![c] = [status |-> "rejected"]]
             /\ cache' = [k \in DOMAIN cache \ {generateCacheKey(query[c])} |-> cache[k]]
             /\ UNCHANGED heap
        ELSE /\ heap' = Append(heap, aggregated.val)
             /\ cache' = CacheSet(generateCacheKey(query[c]),
                                  [data |-> Len(heap) + 1, timestamp |-> now])
             /\ ret' = [ret EXCEPT ![c] = [status |-> "resolved", ref |-> Len(heap) + 1]]
  /\ UNCHANGED <<now, query, st, hit, started, invoked, input, output>>

\* search from the resumption after Promise.allSettled (line 330) to its
\* return (line 298): no await in between
Join(c) ==
  /\ pc[c] = "waiting"
  /\ \A a \in DOMAIN st[c] : st[c][a] \in Settled
  /\ pc' = [pc EXCEPT ![c] = "done"]
  /\ LET aggregated == Aggregate(query[c], st[c], now)
     IN IF IsThrow(aggregated)
        THEN /\ ret' = [ret EXCEPT ![c] = [status |-> "rejected"]]
             /\ UNCHANGED <<cache, heap>>
        ELSE /\ heap' = Append(heap, aggregated.val)
             /\ cache' = CacheSet(generateCacheKey(query[c]),
                                  [data |-> Len(heap) + 1, timestamp |-> now])
             /\ ret' = [ret EXCEPT ![c] = [status |-> "resolved", ref |-> Len(heap) + 1]]
  /\ UNCHANGED <<now, query, st, hit, started, invoked, input, output>>

\* the caller of a resolved search removes the last offer of one of the
\* arrays of the object it was given (aggregated.flights.pop())
Mutate(c, f) ==
  /\ pc[c] = "done"
  /\ ret[c].status = "resolved"
  /\ heap[ret[c].ref][f] # <<>>
  /\ heap' = [heap EXCEPT ![ret[c].ref][f] = SubSeq(@, 1, Len(@) - 1)]
  /\ UNCHANGED <<now, cache, pc, query, st, ret, hit, started, invoked, input, output>>

\* time passes
Tick ==
  /\ now < MaxTicks * (cacheTTL \div 2)
  /\ now' = now + (cacheTTL \div 2)
  /\ UNCHANGED <<cache, heap, pc, query, st, ret, hit, started, invoked, input, output>>

(***************************************************************************)
(* Spec: successive searches over queries that share adapters and keys.    *)
(***************************************************************************)
Next ==
  \/ \E c \in CallIds, q \in CacheQueries : Search(c, q, MaxSearches)
  \/ \E c \in CallIds, a \in Adapters, o \in Settled : Settle(c, a, o)
  \/ \E c \in CallIds : Join(c)
  \/ \E c \in CallIds, f \in {"flights", "hotels"} : Mutate(c, f)
  \/ Tick

Spec == Init /\ [][Next]_vars

(***************************************************************************)
(* SpecFan: one search over every kind of query.                           *)
(***************************************************************************)
NextFan ==
  \/ \E c \in CallIds, q \in FanQueries : Search(c, q, MaxFanSearches)
  \/ \E c \in CallIds, a \in Adapters, o \in Settled : Settle(c, a, o)
  \/ \E c \in CallIds : Join(c)
  \/ \E c \in CallIds, f \in {"flights", "hotels"} : Mutate(c, f)
  \/ Tick

SpecFan == Init /\ [][NextFan]_vars

(***************************************************************************)
(* FairSpec: SpecFan where the event loop resumes search once every        *)
(* adapter call has settled, and every adapter call but those of           *)
(* HungAdapter settles.                                                    *)
(***************************************************************************)
HungAdapter == "searchKiwi"

FairSpec ==
  /\ SpecFan
  /\ \A c \in CallIds : WF_vars(Join(c))
  /\ \A c \in CallIds : \A a \in Adapters \ {HungAdapter} :
       WF_vars(\E o \in Settled : Settle(c, a, o))

(***************************************************************************)
(* SpecConc: two callers of one BookingAggregator whose searches overlap:  *)
(* a search suspended at its await leaves the event loop to the other      *)
(* caller's search, to settlements and to resumptions.                     *)
(***************************************************************************)
MaxConcSearches == 2

ConcIds == {1, 2}
ConcQueries == {QHotel, QFlight}

InitConc ==
  /\ now = 0
  /\ cache = <<>>
  /\ heap = <<>>
  /\ pc = [c \in ConcIds |-> "idle"]
  /\ query = [c \in ConcIds |-> NoQuery]
  /\ st = [c \in ConcIds |-> <<>>]
  /\ ret = [c \in ConcIds |-> NoRet]
  /\ hit = [c \in ConcIds |-> FALSE]
  /\ started = [c \in ConcIds |-> 0]
  /\ invoked = 0
  /\ input = NoInput
  /\ output = NoOutput

NextConc ==
  \/ \E c \in ConcIds, q \in ConcQueries : Search(c, q, MaxConcSearches)
  \/ \E c \in ConcIds, a \in Adapters, o \in Settled : Settle(c, a, o)
  \/ \E c \in ConcIds : Join(c)
  \/ Tick

SpecConc == InitConc /\ [][NextConc]_vars

(***************************************************************************)
(* SpecClear: successive searches of one caller, with clearCache called at *)
(* any moment in between, a search being suspended at its await included.  *)
(***************************************************************************)
ClearQueries == {QHotel, QFlight}

\* getCacheStats(): size, and the keys (Array.from(this.cache.keys()), here
\* without their order)
getCacheStats == [size |-> Cardinality(DOMAIN cache), keys |-> DOMAIN cache]

\* a clearCache that drops the expired entries only
ClearCacheExpired ==
  /\ cache' = [k \in {x \in DOMAIN cache : now - cache[x].timestamp < cacheTTL} |-> cache[k]]
  /\ UNCHANGED <<now, heap, pc, query, st, ret, hit, started, invoked, input, output>>

\* clearCache(): this.cache.clear()
ClearCache ==
  /\ cache' = <<>>
  /\ UNCHANGED <<now, heap, pc, query, st, ret, hit, started, invoked, input, output>>

NextClear ==
  \/ \E c \in CallIds, q \in ClearQueries : Search(c, q, MaxSearches)
  \/ \E c \in CallIds, a \in Adapters, o \in Settled : Settle(c, a, o)
  \/ \E c \in CallIds : Join(c)
  \/ ClearCache
  \/ Tick

SpecClear == Init /\ [][NextClear]_vars

(***************************************************************************)
(* SpecMerge: mergeDuplicates and identifyBestDeals called directly, on    *)
(* every sequence of at most MaxFlightOffers flights or MaxHotelOffers     *)
(* hotels drawn from the records below.                                    *)
(***************************************************************************)
MaxFlightOffers == 2
MaxHotelOffers == 3

\* raw flight records ATH -> BKK that carry their price in `price`
RawFlights ==
  {[source |-> src, price |-> p,
    segments |-> <<[fromCode |-> from, toCode |-> "BKK", airline |-> "TG",
                    departure |-> dep, duration |-> Num(150)]>>] :
     src \in {"skyscanner", "kiwi"}, p \in {480, 500}, from \in {"ATH", "ath"},
     dep \in {"2026-01-10T08:00", "2026-01-10T20:00", "2026-01-11T09:00"}}

\* what normalizeFlight makes of them, at clock 0 or 1
NormalizedFlights ==
  {normalizeFlight(raw, raw.source, 0).val : raw \in RawFlights}
    \cup {normalizeFlight(raw, raw.source, 1).val : raw \in {r \in RawFlights : r.source = "kiwi"}}

\* HotelDeal records of one provider
HotelDeals ==
  {[source |-> "agoda", name |-> n, price |-> p, rating |-> 4, reviews |-> 10,
    specialDeals |-> <<>>] :
     n \in {<<"G", "P">>, <<"g", "p">>, <<"I", "n", "n">>}, p \in {0, 50, 100, 120, 150}}

\* what normalizeHotel makes of them
NormalizedHotels == {normalizeHotel(d, d.source, 0).val : d \in HotelDeals}

\* the sequences of at most n elements of S
SeqsUpTo(S, n) == UNION {[1..k -> S] : k \in 0..n}

MergeInputs ==
  {[op |-> "mergeDuplicates", kind |-> "flights", xs |-> xs] :
     xs \in SeqsUpTo(NormalizedFlights, MaxFlightOffers)}
    \cup {[op |-> "mergeDuplicates", kind |-> "hotels", xs |-> xs] :
            xs \in SeqsUpTo(NormalizedHotels, MaxHotelOffers)}
    \cup {[op |-> "identifyBestDeals", kind |-> "hotels", xs |-> xs] :
            xs \in SeqsUpTo(HotelDeals, MaxHotelOffers)}

InitMerge ==
  /\ now = 0
  /\ cache = <<>>
  /\ heap = <<>>
  /\ pc = [c \in CallIds |-> "idle"]
  /\ query = [c \in CallIds |-> NoQuery]
  /\ st = [c \in CallIds |-> <<>>]
  /\ ret = [c \in CallIds |-> NoRet]
  /\ hit = [c \in CallIds |-> FALSE]
  /\ started = [c \in CallIds |-> 0]
  /\ invoked = 0
  /\ input \in MergeInputs
  /\ output = NoOutput

\* normalizer.mergeDuplicates(input.xs), which only reads results and its
\* elements; argument is the array passed, as it is after the call
CallMergeDuplicates ==
  /\ input.op = "mergeDuplicates"
  /\ ~output.returned
  /\ output' = [returned |-> TRUE, value |-> mergeDuplicates(input.xs),
                argument |-> input.xs]
  /\ UNCHANGED <<now, cache, heap, pc, query, st, ret, hit, started, invoked, input>>

\* identifyBestDeals(input.xs)
CallIdentifyBestDeals ==
  /\ input.op = "identifyBestDeals"
  /\ ~output.returned
  /\ output' = [returned |-> TRUE, value |-> identifyBestDeals(input.xs),
                argument |-> identifyBestDealsArgument(input.xs)]
  /\ UNCHANGED <<now, cache, heap, pc, query, st, ret, hit, started, invoked, input>>

NextMerge ==
  \/ CallMergeDuplicates
  \/ CallIdentifyBestDeals

SpecMerge == InitMerge /\ [][NextMerge]_vars

(***************************************************************************)
(* SpecNormalize: normalizeFlight, normalizeHotel and normalizeTransport   *)
(* called directly on raw records (data: any) with fields present or       *)
(* missing and durations of every format.                                  *)
(***************************************************************************)
\* a property that is missing, or present with a value of V
OptField(f, V) == {<<>>} \cup {(f :> v) : v \in V}

\* 150, "2h 30m", "PT2H" and "soon"
Durations ==
  {Num(150), Str(<<"2", "h", " ", "3", "0", "m">>), Str(<<"P", "T", "2", "H">>),
   Str(<<"s", "o", "o", "n">>)}

RawSegments ==
  {d @@ [fromCode |-> "ATH", toCode |-> "BKK"] : d \in OptField("duration", Durations)}

RawFlightRecords ==
  {sg @@ td @@ pr @@ [source |-> "kiwi"] :
     sg \in OptField("segments", {<<>>} \cup {<<seg>> : seg \in RawSegments}),
     td \in OptField("totalDuration", Durations),
     pr \in OptField("price", {480})}

RawHotelRecords ==
  {nm @@ pr @@ rt @@ rv @@ [source |-> "agoda"] :
     nm \in OptField("name", {<<"G", "P">>}), pr \in OptField("price", {100}),
     rt \in OptField("rating", {4}), rv \in OptField("reviews", {10})}

RawTransportRecords ==
  {d @@ pr @@ ty @@ [source |-> "busline"] :
     d \in OptField("duration", Durations), pr \in OptField("price", {20}),
     ty \in OptField("type", {"train"})}

NormalizeInputs ==
  {[op |-> "normalizeFlight", data |-> r] : r \in RawFlightRecords}
    \cup {[op |-> "normalizeHotel", data |-> r] : r \in RawHotelRecords}
    \cup {[op |-> "normalizeTransport", data |-> r] : r \in RawTransportRecords}

InitNormalize ==
  /\ now = 0
  /\ cache = <<>>
  /\ heap = <<>>
  /\ pc = [c \in CallIds |-> "idle"]
  /\ query = [c \in CallIds |-> NoQuery]
  /\ st = [c \in CallIds |-> <<>>]
  /\ ret = [c \in CallIds |-> NoRet]
  /\ hit = [c \in CallIds |-> FALSE]
  /\ started = [c \in CallIds |-> 0]
  /\ invoked = 0
  /\ input \in NormalizeInputs
  /\ output = NoOutput

\* normalizer.normalizeFlight(input.data, input.data.source): value is what it
\* returned, or the exception it threw
CallNormalizeFlight ==
  /\ input.op = "normalizeFlight"
  /\ ~output.returned
  /\ output' = [returned |-> TRUE,
                value |-> normalizeFlight(input.data, input.data.source, now)]
  /\ UNCHANGED <<now, cache, heap, pc, query, st, ret, hit, started, invoked, input>>

CallNormalizeHotel ==
  /\ input.op = "normalizeHotel"
  /\ ~output.returned
  /\ output' = [returned |-> TRUE,
                value |-> normalizeHotel(input.data, input.data.source, now)]
  /\ UNCHANGED <<now, cache, heap, pc, query, st, ret, hit, started, invoked, input>>

CallNormalizeTransport ==
  /\ input.op = "normalizeTransport"
  /\ ~output.returned
  /\ output' = [returned |-> TRUE,
                value |-> normalizeTransport(input.data, input.data.source, now)]
  /\ UNCHANGED <<now, cache, heap, pc, query, st, ret, hit, started, invoked, input>>

NextNormalize ==
  \/ CallNormalizeFlight
  \/ CallNormalizeHotel
  \/ CallNormalizeTransport

SpecNormalize == InitNormalize /\ [][NextNormalize]_vars

(***************************************************************************)
(* SpecDeals: findBestDeals called directly on merged sets of at most      *)
(* MaxDealOffers flights and hotels and at most one transport, as a merge  *)
(* by lower-cased name would produce them.                                 *)
(***************************************************************************)
MaxDealOffers == 2

\* merged flights: two prices, two sources
DealFlights ==
  {normalizeFlight([source |-> src, price |-> p, segments |-> <<>>], src, 0).val :
     src \in {"skyscanner", "kiwi"}, p \in {480, 500}}

\* merged hotels: scores 40/100, 20/50, 50/100 and 30/60, with and without a
\* first-time offer
DealHotels ==
  {normalizeHotel([source |-> "agoda", name |-> n, price |-> v[3], rating |-> v[1],
                   reviews |-> v[2], specialDeals |-> sd], "agoda", 0).val :
     n \in {<<"G", "P">>, <<"I", "n", "n">>},
     v \in {<<4, 10, 100>>, <<4, 5, 50>>, <<5, 10, 100>>, <<3, 10, 60>>},
     sd \in {<<>>, << <<"F", "i", "r", "s", "t">> >>}}

DealTransports ==
  {normalizeTransport([source |-> "busline", price |-> 20, duration |-> Num(90)],
                      "busline", 0).val}

\* the hotels of a merged set: one per lower-cased name
MergedHotels ==
  {hs \in SeqsUpTo(DealHotels, MaxDealOffers) :
     \A i, j \in 1..Len(hs) : i # j => toLowerCase(hs[i].name) # toLowerCase(hs[j].name)}

DealInputs ==
  {[op |-> "findBestDeals",
    merged |-> [flights |-> fs, hotels |-> hs, transport |-> ts, experiences |-> <<>>]] :
     fs \in SeqsUpTo(DealFlights, MaxDealOffers),
     hs \in MergedHotels,
     ts \in SeqsUpTo(DealTransports, 1)}

InitDeals ==
  /\ now = 0
  /\ cache = <<>>
  /\ heap = <<>>
  /\ pc = [c \in CallIds |-> "idle"]
  /\ query = [c \in CallIds |-> NoQuery]
  /\ st = [c \in CallIds |-> <<>>]
  /\ ret = [c \in CallIds |-> NoRet]
  /\ hit = [c \in CallIds |-> FALSE]
  /\ started = [c \in CallIds |-> 0]
  /\ invoked = 0
  /\ input \in DealInputs
  /\ output = NoOutput

\* this.findBestDeals(input.merged), which only reads merged
CallFindBestDeals ==
  /\ input.op = "findBestDeals"
  /\ ~output.returned
  /\ output' = [returned |-> TRUE, value |-> findBestDeals(input.merged),
                argument |-> input.merged]
  /\ UNCHANGED <<now, cache, heap, pc, query, st, ret, hit, started, invoked, input>>

NextDeals == CallFindBestDeals

SpecDeals == InitDeals /\ [][NextDeals]_vars

(***************************************************************************)
(* SpecFlights: searchFlights called directly, with flexible false or      *)
(* true.  pc[c] and st[c] are the position of the call and the status of   *)
(* the provider calls it made; output is how its promise settled.          *)
(***************************************************************************)
FlightInputs == {[op |-> "searchFlights", flexible |-> f] : f \in BOOLEAN}

InitFlights ==
  /\ now = 0
  /\ cache = <<>>
  /\ heap = <<>>
  /\ pc = [c \in CallIds |-> "idle"]
  /\ query = [c \in CallIds |-> NoQuery]
  /\ st = [c \in CallIds |-> <<>>]
  /\ ret = [c \in CallIds |-> NoRet]
  /\ hit = [c \in CallIds |-> FALSE]
  /\ started = [c \in CallIds |-> 0]
  /\ invoked = 0
  /\ input \in FlightInputs
  /\ output = NoOutput

\* searchFlights up to its first await, lines 63-81: every direct provider
\* call is made, then Promise.allSettled is awaited
CallSearchFlights(c) ==
  /\ input.op = "searchFlights"
  /\ pc[c] = "idle"
  /\ pc' = [pc EXCEPT ![c] = "waiting"]
  /\ st' = [st EXCEPT ![c] = [a \in Range(FlightAdapters) |-> "pending"]]
  /\ invoked' = invoked + Len(FlightAdapters)
  /\ UNCHANGED <<now, cache, heap, query, ret, hit, started, input, output>>

\* the awaited promise settled and the next searchRoute call is made and
\* awaited, lines 116-117
LookupRoute(c) ==
  /\ input.op = "searchFlights"
  /\ pc[c] = "waiting"
  /\ \A a \in DOMAIN st[c] : st[c][a] \in Settled
  /\ ~NextStep(input.flexible, st[c]).return
  /\ st' = [st EXCEPT ![c] =
              [a \in DOMAIN st[c] \cup {NextStep(input.flexible, st[c]).call} |->
                 IF a \in DOMAIN st[c] THEN st[c][a] ELSE "pending"]]
  /\ invoked' = invoked + 1
  /\ UNCHANGED <<now, cache, heap, pc, query, ret, hit, started, input, output>>

\* the awaited promise settled and searchFlights returns, lines 95-96
ReturnFlights(c) ==
  /\ input.op = "searchFlights"
  /\ pc[c] = "waiting"
  /\ \A a \in DOMAIN st[c] : st[c][a] \in Settled
  /\ NextStep(input.flexible, st[c]).return
  /\ pc' = [pc EXCEPT ![c] = "done"]
  /\ output' = [returned |-> TRUE, status |-> "fulfilled",
                value |-> searchFlightsRoutes(input.flexible, st[c])]
  /\ UNCHANGED <<now, cache, heap, query, st, ret, hit, started, invoked, input>>

NextFlights ==
  \/ \E c \in CallIds : CallSearchFlights(c)
  \/ \E c \in CallIds, a \in Adapters \cup Legs, o \in Settled : Settle(c, a, o)
  \/ \E c \in CallIds : LookupRoute(c)
  \/ \E c \in CallIds : ReturnFlights(c)

SpecFlights == InitFlights /\ [][NextFlights]_vars

(***************************************************************************)
(* Vocabulary of the properties.                                           *)
(***************************************************************************)
\* call c ran the fan-out and has returned
Completed(c) == pc[c] = "done" /\ ~hit[c]

\* this step is the resumption of call c after Promise.allSettled
JoinStep(c) == pc[c] = "waiting" /\ pc'[c] = "done"

\* this step is a call of search by caller c
SearchStep(c) == started'[c] = started[c] + 1

\* the number of offers of all kinds in a result
OfferCount(r) == Len(r.flights) + Len(r.hotels) + Len(r.transport) + Len(r.experiences)

AllEmpty(r) ==
  r.flights = <<>> /\ r.hotels = <<>> /\ r.transport = <<>> /\ r.experiences = <<>>

\* the adapters of call c that were fulfilled with at least one record
Productive(c) == {a \in DOMAIN st[c] : st[c][a] = "batch"}

\* the source tag an adapter puts on its records
SourceTag(a) == Batch(a)[1].source

\* the Query invariant of the data model: destination non-empty, and an
\* origin when the kind is flight
ValidQuery(q) ==
  /\ Field(q, "to") # ""
  /\ Field(q, "type") = "flight" => Field(q, "from") # ""

\* a free-text value with its casing normalized
CaseFold(v) ==
  CASE v = "BKK" -> "bkk" [] v = "ATH" -> "ath" [] OTHER -> v

\* the field values of a query, whatever the order they were set in and the
\* casing of origin and destination
Canonical(q) ==
  {<<q[i][1], IF q[i][1] \in {"from", "to"} THEN CaseFold(q[i][2]) ELSE q[i][2]>> :
     i \in 1..Len(q)}

(***************************************************************************)
(* C1.  Partial-failure tolerance: when exactly one adapter call of the    *)
(* fan-out is fulfilled, with 2 records, and another one rejects, search   *)
(* resolves and its result holds exactly 2 offers.                         *)
(* The code merges every offer of a kind into one (generateMergeKey is the *)
(* same for all of them), so the result holds 1.                           *)
(***************************************************************************)
PartialFailure(c) ==
  /\ Completed(c)
  /\ \E a \in DOMAIN st[c] : st[c][a] = "rejected"
  /\ \E a \in DOMAIN st[c] :
       /\ Productive(c) = {a}
       /\ Len(Batch(a)) = 2
       /\ \A i \in 1..2 : ~IsThrow(normalizeFlight(Batch(a)[i], "s", 0))

C1_PartialFailureTolerance ==
  [][\A c \in CallIds :
       (JoinStep(c) /\ PartialFailure(c)') =>
         /\ ret'[c].status = "resolved"
         /\ OfferCount(heap'[ret'[c].ref]) = 2]_vars

(***************************************************************************)
(* C2.  Empty aggregation: a search all of whose adapter calls reject or   *)
(* are fulfilled with no record resolves, and flights, hotels, transport,  *)
(* experiences, bestDeals and sources of its result are all empty.         *)
(***************************************************************************)
NothingReturned(c) ==
  Completed(c) /\ \A a \in DOMAIN st[c] : st[c][a] \in {"rejected", "empty"}

C2_EmptyAggregation ==
  \A c \in CallIds :
    NothingReturned(c) =>
      /\ ret[c].status = "resolved"
      /\ AllEmpty(heap[ret[c].ref])
      /\ heap[ret[c].ref].bestDeals = <<>>
      /\ heap[ret[c].ref].sources = <<>>

\* a search of kind all returned although every one of its adapters failed
\* or returned nothing, one of each at least
C2_Witness ==
  \E c \in CallIds :
    /\ NothingReturned(c)
    /\ query[c] = QAll
    /\ \E a \in DOMAIN st[c] : st[c][a] = "rejected"
    /\ \E a \in DOMAIN st[c] : st[c][a] = "empty"
    /\ ret[c].status = "resolved"

(***************************************************************************)
(* C3.  Query validation: a search whose query has an empty destination,   *)
(* or kind flight and no origin, is rejected as soon as it is called; no   *)
(* adapter is invoked and the cache gets no entry for it.                  *)
(* The code does not validate: it starts the fan-out and stores a result.  *)
(***************************************************************************)
C3_QueryValidation ==
  \A c \in CallIds :
    (pc[c] # "idle" /\ ~ValidQuery(query[c])) =>
      /\ pc[c] = "done"
      /\ ret[c].status = "rejected"
      /\ invoked = 0
      /\ generateCacheKey(query[c]) \notin DOMAIN cache

(***************************************************************************)
(* C4.  Cache TTL: a search for a key that has an entry stored at t        *)
(* returns the stored object when now - t < cacheTTL; when                 *)
(* now - t >= cacheTTL it runs the fan-out again, and on resolving it      *)
(* replaces the entry by a new object with a later creation time.          *)
(***************************************************************************)
C4_CacheTTL ==
  [][\A c \in CallIds :
       LET k == generateCacheKey(query'[c])
       IN /\ (SearchStep(c) /\ k \in DOMAIN cache) =>
               IF now - cache[k].timestamp < cacheTTL
               THEN /\ pc'[c] = "done"
                    /\ ret'[c] = [status |-> "resolved", ref |-> cache[k].data]
                    /\ invoked' = invoked
               ELSE /\ pc'[c] = "waiting"
                    /\ DOMAIN st'[c] = Invoked(query'[c])
                    /\ invoked' = invoked + Cardinality(Invoked(query'[c]))
          /\ (JoinStep(c) /\ ret'[c].status = "resolved") =>
               /\ cache'[k] = [data |-> ret'[c].ref, timestamp |-> now]
               /\ ret'[c].ref \notin {cache[x].data : x \in DOMAIN cache}
               /\ k \in DOMAIN cache => cache'[k].timestamp > cache[k].timestamp]_vars

\* two searches for one key have stored a result, the second one a full TTL
\* or more after the first: the entry holds the second object
C4_Witness ==
  /\ Len(heap) = 2
  /\ \E k \in DOMAIN cache :
       /\ DOMAIN cache = {k}
       /\ cache[k].data = 2
       /\ cache[k].timestamp >= heap[1].lastUpdated + cacheTTL

(***************************************************************************)
(* C5.  Cache-key canonicalization: a search whose query has the field     *)
(* values of a query with an unexpired entry, set in another order or with *)
(* another casing of origin and destination, is a hit on that entry.       *)
(* The code keys the cache by JSON.stringify(query), which keeps the order *)
(* and the casing.                                                         *)
(***************************************************************************)
C5_KeyCanonicalization ==
  [][\A c \in CallIds : \A q \in Queries :
       (/\ SearchStep(c)
        /\ CacheHit(generateCacheKey(q))
        /\ Canonical(q) = Canonical(query'[c])) =>
         /\ hit'[c]
         /\ ret'[c] = [status |-> "resolved", ref |-> cache[generateCacheKey(q)].data]]_vars

(***************************************************************************)
(* C6.  A cache hit has no side effect: a search that finds an unexpired   *)
(* entry returns its object, invokes no adapter and leaves the cache, the  *)
(* timestamp of the entry included, and the stored objects unchanged.      *)
(***************************************************************************)
C6_HitHasNoSideEffect ==
  [][\A c \in CallIds :
       (SearchStep(c) /\ CacheHit(generateCacheKey(query'[c]))) =>
         /\ ret'[c] = [status |-> "resolved", ref |-> cache[generateCacheKey(query'[c])].data]
         /\ invoked' = invoked
         /\ cache' = cache
         /\ heap' = heap]_vars

\* a search returned from the cache after the entry was stored
C6_Witness ==
  \E c \in CallIds :
    /\ pc[c] = "done"
    /\ hit[c]
    /\ now > cache[generateCacheKey(query[c])].timestamp
    /\ ret[c].ref = cache[generateCacheKey(query[c])].data

(***************************************************************************)
(* C7.  Immutable snapshot: nothing a caller does to the object it was     *)
(* given changes what a later hit on the same entry returns: as long as an *)
(* entry refers to the same object, the value of that object is the same.  *)
(* The code returns the very object it stores.                             *)
(***************************************************************************)
C7_ImmutableSnapshot ==
  [][\A k \in DOMAIN cache :
       (k \in DOMAIN cache' /\ cache'[k].data = cache[k].data) =>
         heap'[cache'[k].data] = heap[cache[k].data]]_vars

(***************************************************************************)
(* C8.  sourcesQueried: the sources of the result of a search are exactly  *)
(* the source tags of the adapters that returned at least one record, and  *)
(* sources is empty exactly when flights, hotels, transport and            *)
(* experiences are all empty.                                              *)
(* extractSources does not read results.experiences.                       *)
(***************************************************************************)
C8_SourcesQueried ==
  [][\A c \in CallIds :
       (JoinStep(c) /\ ret'[c].status = "resolved") =>
         LET r == heap'[ret'[c].ref]
         IN /\ Range(r.sources) = {SourceTag(a) : a \in Productive(c)}
            /\ (r.sources = <<>>) <=> AllEmpty(r)]_vars

(***************************************************************************)
(* C9.  No indefinite blocking: a search that waits for its adapter calls  *)
(* eventually returns, even if one of them never settles.                  *)
(* The code awaits Promise.allSettled without any deadline.                *)
(***************************************************************************)
C9_NoIndefiniteBlocking ==
  \A c \in CallIds : (pc[c] = "waiting") ~> (pc[c] = "done")

(***************************************************************************)
(* C10.  Per-record isolation: when a batch holds a record for which       *)
(* normalization throws, search resolves, and the records of the batch     *)
(* that can be normalized are in its result.                               *)
(* normalizeAll maps the normalizer over the batch without a try/catch.    *)
(***************************************************************************)
\* the raw flight records of call c that normalizeFlight throws for
Offending(c) ==
  LET raw == searchAllSources(query[c], st[c]).flights
  IN {i \in 1..Len(raw) : IsThrow(normalizeFlight(raw[i], raw[i].source, now))}

C10_PerRecordIsolation ==
  [][\A c \in CallIds :
       (JoinStep(c) /\ Offending(c) # {}) =>
         /\ ret'[c].status = "resolved"
         /\ LET raw == searchAllSources(query[c], st[c]).flights
            IN Len(raw) > Cardinality(Offending(c)) => heap'[ret'[c].ref].flights # <<>>]_vars

(***************************************************************************)
(* Vocabulary of the merge properties.                                     *)
(***************************************************************************)
\* the calendar date of a departure
DateOnly(datetime) ==
  CASE datetime \in {"2026-01-10T08:00", "2026-01-10T20:00"} -> "2026-01-10"
    [] datetime = "2026-01-11T09:00" -> "2026-01-11"
    [] OTHER -> datetime

\* lowercase(origin) + lowercase(destination) + departureDateOnly
FlightFingerprint(f) ==
  <<CaseFold(f.segments[1].from.code),
    CaseFold(f.segments[Len(f.segments)].to.code),
    DateOnly(f.segments[1].departure.datetime)>>

MinOf(S) == CHOOSE m \in S : \A x \in S : m <= x

\* a direct call of op on offers of the kind has returned
Returned(op, kind) == output.returned /\ input.op = op /\ input.kind = kind

(***************************************************************************)
(* C11.  Flight fingerprint: mergeDuplicates keeps, for every fingerprint  *)
(* (origin and destination ignoring case, calendar date of departure) of   *)
(* its flights, exactly one representative, which is one of the cheapest   *)
(* flights with that fingerprint; flights on different dates stay apart.   *)
(* generateMergeKey is the same for every flight, so one flight is kept.   *)
(***************************************************************************)
C11_FlightFingerprint ==
  Returned("mergeDuplicates", "flights") =>
    \A i \in 1..Len(input.xs) :
      LET group == {j \in 1..Len(input.xs) :
                      FlightFingerprint(input.xs[j]) = FlightFingerprint(input.xs[i])}
          reps == {k \in 1..Len(output.value) :
                     FlightFingerprint(output.value[k]) = FlightFingerprint(input.xs[i])}
      IN /\ Cardinality(reps) = 1
         /\ \A k \in reps :
              /\ output.value[k] \in {input.xs[j] : j \in group}
              /\ output.value[k].price.amount =
                   MinOf({input.xs[j].price.amount : j \in group})

(***************************************************************************)
(* C12.  Lodging dedup and discount: identifyBestDeals returns one hotel   *)
(* per lower-cased name; the hotel of a group of two or more carries       *)
(* discount = round(((maxPrice - minPrice) / maxPrice) * 100) over the     *)
(* prices of the group (maxPrice > 0), and its price is minPrice; the      *)
(* hotel of a singleton group carries no discount.                         *)
(***************************************************************************)
\* d is x rounded to the nearest integer, halves up, for x = n / m, m > 0
IsRounded(d, n, m) == 2 * m * d <= 2 * n + m /\ 2 * n + m < 2 * m * (d + 1)

C12_LodgingDiscount ==
  Returned("identifyBestDeals", "hotels") =>
    \A i \in 1..Len(input.xs) :
      LET group == {j \in 1..Len(input.xs) : LowerName(input.xs[j]) = LowerName(input.xs[i])}
          prices == {input.xs[j].price : j \in group}
          reps == {k \in 1..Len(output.value) :
                     LowerName(output.value[k]) = LowerName(input.xs[i])}
      IN /\ Cardinality(reps) = 1
         /\ \A k \in reps :
              /\ output.value[k].price = MinOf(prices)
              /\ Cardinality(group) = 1 => ~Has(output.value[k], "discount")
              /\ (Cardinality(group) >= 2 /\ MaxOf(prices) > 0) =>
                   /\ Has(output.value[k], "discount")
                   /\ output.value[k].discount.t = "num"
                   /\ IsRounded(output.value[k].discount.n,
                                100 * (MaxOf(prices) - MinOf(prices)), MaxOf(prices))

\* the same hotel at 150, 120 and 100: one hotel at 100 with discount 33
C12_Witness ==
  /\ Returned("identifyBestDeals", "hotels")
  /\ Len(input.xs) = 3
  /\ \A i \in 1..3 : LowerName(input.xs[i]) = <<"g", "p">>
  /\ {input.xs[i].price : i \in 1..3} = {150, 120, 100}
  /\ Len(output.value) = 1
  /\ output.value[1].price = 100
  /\ output.value[1].discount = Num(33)

(***************************************************************************)
(* C13.  Merge idempotence: mergeDuplicates of what mergeDuplicates        *)
(* returned is that same sequence, for flights and for hotels.             *)
(***************************************************************************)
C13_MergeIdempotent ==
  (output.returned /\ input.op = "mergeDuplicates") =>
    mergeDuplicates(output.value) = output.value

\* a merge that removed offers, and whose output merges to itself
C13_Witness ==
  /\ output.returned
  /\ input.op = "mergeDuplicates"
  /\ Len(input.xs) >= 2
  /\ output.value # <<>>
  /\ Len(output.value) < Len(input.xs)
  /\ mergeDuplicates(output.value) = output.value

(***************************************************************************)
(* C14.  Representative minimality: the representative mergeDuplicates     *)
(* returns for a group is a member of the group and its price.amount is    *)
(* the minimum over the group; the hotel identifyBestDeals returns for a   *)
(* name is a member of the group of that name (with the fields the         *)
(* operation sets on it) and its price is the minimum over the group.      *)
(***************************************************************************)
\* rep is the object member, with the fields identifyBestDeals set on it
SameDeal(rep, member) == \A f \in DOMAIN member : Has(rep, f) /\ rep[f] = member[f]

C14_RepresentativeMinimal ==
  /\ (output.returned /\ input.op = "mergeDuplicates") =>
       LET keys == DistinctKeys(input.xs, generateMergeKey)
       IN /\ Len(output.value) = Len(keys)
          /\ \A i \in 1..Len(keys) :
               LET group == GroupOf(input.xs, generateMergeKey, keys[i])
               IN /\ output.value[i] \in Range(group)
                  /\ output.value[i].price.amount =
                       MinOf({group[j].price.amount : j \in 1..Len(group)})
  /\ Returned("identifyBestDeals", "hotels") =>
       LET keys == DistinctKeys(input.xs, LowerName)
       IN /\ Len(output.value) = Len(keys)
          /\ \A i \in 1..Len(keys) :
               LET group == GroupOf(input.xs, LowerName, keys[i])
               IN \E k \in 1..Len(output.value) :
                    /\ \E j \in 1..Len(group) : SameDeal(output.value[k], group[j])
                    /\ output.value[k].price = MinOf({group[j].price : j \in 1..Len(group)})

\* two flights of one group, the second one cheaper: it is the representative
C14_Witness ==
  /\ Returned("mergeDuplicates", "flights")
  /\ Len(input.xs) = 2
  /\ input.xs[2].price.amount < input.xs[1].price.amount
  /\ generateMergeKey(input.xs[1]) = generateMergeKey(input.xs[2])
  /\ output.value = <<input.xs[2]>>

(***************************************************************************)
(* C15.  Discount bound: the discount identifyBestDeals computes for a     *)
(* group of two or more offers with prices >= 0 is a number d with         *)
(* 0 <= d <= 100.                                                          *)
(* When every price of the group is 0 the code divides 0 by 0: NaN.        *)
(***************************************************************************)
C15_DiscountBound ==
  Returned("identifyBestDeals", "hotels") =>
    \A k \in 1..Len(output.value) :
      Has(output.value[k], "discount") =>
        /\ output.value[k].discount.t = "num"
        /\ 0 <= output.value[k].discount.n
        /\ output.value[k].discount.n <= 100

(***************************************************************************)
(* C16.  Request coalescing: a search that starts while another search for *)
(* the identical query (the same cache key) is still in flight runs no     *)
(* provider fan-out of its own: no adapter is invoked for it.              *)
(* search only consults the cache of finished results, so the second       *)
(* search misses and invokes every adapter again.                          *)
(***************************************************************************)
InFlight(d) == pc[d] = "waiting"

C16_RequestCoalescing ==
  [][\A c \in Calls :
       (/\ SearchStep(c)
        /\ \E d \in Calls \ {c} :
             InFlight(d) /\ generateCacheKey(query[d]) = generateCacheKey(query'[c]))
       => invoked' = invoked]_vars

(***************************************************************************)
(* C17.  No lost cache update: under every interleaving of overlapping     *)
(* searches, once a search has completed its key has an entry; an entry    *)
(* only ever changes by a completing search for that very key storing the  *)
(* object it returns, and no entry is dropped.                             *)
(* A search whose normalization throws completes by rejecting and stores   *)
(* nothing: its key is left without an entry.                              *)
(***************************************************************************)
\* this step is call c returning the object it stores under k
StoredBy(c, k) ==
  /\ JoinStep(c)
  /\ generateCacheKey(query[c]) = k
  /\ ret'[c].status = "resolved"
  /\ cache'[k].data = ret'[c].ref
  /\ ret'[c].ref \notin DOMAIN heap

\* entries change only by the store of a completing search for their key
OnlyStores ==
  /\ DOMAIN cache \subseteq DOMAIN cache'
  /\ \A k \in DOMAIN cache' :
       \/ k \in DOMAIN cache /\ cache'[k] = cache[k]
       \/ \E c \in Calls : StoredBy(c, k)

C17_NoLostCacheUpdate ==
  [][/\ \A c \in Calls : JoinStep(c) => generateCacheKey(query[c]) \in DOMAIN cache'
     /\ OnlyStores]_vars

(***************************************************************************)
(* C18.  Kind routing: in the result of a search every record of a kind's  *)
(* sequence comes from an adapter of that kind's group, and a group of     *)
(* which an adapter returned records leaves at least one record in its     *)
(* own kind's sequence, whatever the kind of the query.                    *)
(* searchAllSources reads the settled groups by position, so the group of  *)
(* a single-kind query, or the groups of kind all without origin, are read *)
(* as the kinds before them.                                               *)
(***************************************************************************)
Kinds == {"flights", "hotels", "transport", "experiences"}

C18_KindRouting ==
  [][\A c \in CallIds :
       (JoinStep(c) /\ ret'[c].status = "resolved") =>
         LET r == heap'[ret'[c].ref]
         IN \A kind \in Kinds :
              /\ \A i \in 1..Len(r[kind]) :
                   \E a \in AdaptersOf(kind) : r[kind][i].source = SourceTag(a)
              /\ Productive(c) \cap AdaptersOf(kind) # {} => r[kind] # <<>>]_vars

(***************************************************************************)
(* C19.  Lodging fingerprint through the whole pipeline: the number of     *)
(* hotels in the result of a search equals the number of distinct          *)
(* lower-cased names among the deals the lodging adapters returned.        *)
(* identifyBestDeals merges by lower-cased name, but mergeDuplicates then  *)
(* gives every hotel the same key and keeps a single one.                  *)
(***************************************************************************)
\* the lower-cased names of the deals the lodging adapters of call c returned
LodgingNames(c) ==
  IF Range(HotelAdapters) \subseteq DOMAIN st[c]
  THEN LET deals == Collect(HotelAdapters, st[c])
       IN {toLowerCase(deals[i].name) : i \in 1..Len(deals)}
  ELSE {}

C19_LodgingFingerprintPipeline ==
  [][\A c \in CallIds :
       (JoinStep(c) /\ ret'[c].status = "resolved") =>
         Len(heap'[ret'[c].ref].hotels) = Cardinality(LodgingNames(c))]_vars

(***************************************************************************)
(* C20.  Deterministic tie-break: of the flights of one fingerprint,       *)
(* mergeDuplicates returns, among those with the minimum price, the one    *)
(* with the earliest lastUpdated and, among those, the one whose source    *)
(* name is lexically smallest, in whatever order they were given.          *)
(* The reduce of mergeDuplicates keeps the first of the cheapest in the    *)
(* order of the input.                                                     *)
(***************************************************************************)
\* the lexical order of the source names
SourceRank(source) ==
  CASE source = "agoda" -> 1
    [] source = "kiwi" -> 2
    [] source = "skyscanner" -> 3
    [] source = "viator" -> 4

\* offer a is not after offer b in the order of the tie-break
TieBreakLeq(a, b) ==
  \/ a.price.amount < b.price.amount
  \/ /\ a.price.amount = b.price.amount
     /\ \/ a.lastUpdated < b.lastUpdated
        \/ a.lastUpdated = b.lastUpdated /\ SourceRank(a.source) <= SourceRank(b.source)

C20_DeterministicTieBreak ==
  (/\ Returned("mergeDuplicates", "flights")
   /\ input.xs # <<>>
   /\ \A i \in 1..Len(input.xs) :
        FlightFingerprint(input.xs[i]) = FlightFingerprint(input.xs[1]))
  => /\ Len(output.value) = 1
     /\ \A i \in 1..Len(input.xs) : TieBreakLeq(output.value[1], input.xs[i])

(***************************************************************************)
(* C21.  Normalizer totality: normalizeFlight, normalizeHotel and          *)
(* normalizeTransport return a normalized offer for every raw record, and  *)
(* never throw: a missing or unparsable duration gives 0 minutes, a        *)
(* missing price gives amount 0.                                           *)
(* parseDuration calls duration.match on a missing duration, which throws. *)
(***************************************************************************)
\* the duration has neither the form <digits>h nor <digits>m
Unparsable(d) == d.t = "str" /\ UnitMatches(d.s, "h") = {} /\ UnitMatches(d.s, "m") = {}

\* property f of the raw record is missing or unparsable
NoDuration(data, f) == ~Has(data, f) \/ Unparsable(data[f])

C21_NormalizerTotality ==
  (output.returned /\ input.op \in {"normalizeFlight", "normalizeHotel", "normalizeTransport"})
  => /\ ~IsThrow(output.value)
     /\ ~Has(input.data, "price") => output.value.val.price.amount = 0
     /\ (input.op = "normalizeTransport" /\ NoDuration(input.data, "duration"))
          => output.value.val.duration = 0
     /\ (input.op = "normalizeFlight" /\ NoDuration(input.data, "totalDuration"))
          => output.value.val.totalDuration = 0
     /\ (input.op = "normalizeFlight" /\ Has(input.data, "segments"))
          => /\ Len(output.value.val.segments) = Len(input.data.segments)
             /\ \A i \in 1..Len(input.data.segments) :
                  NoDuration(input.data.segments[i], "duration")
                    => output.value.val.segments[i].duration = 0

(***************************************************************************)
(* Vocabulary of the deal properties.                                      *)
(***************************************************************************)
\* findBestDeals has returned
DealsReturned == output.returned /\ input.op = "findBestDeals"

\* the deals returned with the given reason
DealsFor(reason) == SelectSeq(output.value, LAMBDA d : d.reason = reason)

\* the type a deal of a kind carries
DealType(kind) ==
  CASE kind = "flights" -> "flight" [] kind = "hotels" -> "hotel"
    [] kind = "transport" -> "transport"

(***************************************************************************)
(* C22.  LowestPrice deal per kind: for flights, hotels and transport,     *)
(* when the merged set of the kind is non-empty the deals hold a deal      *)
(* "Lowest price" of that kind whose item is an offer of the set with the  *)
(* minimum price.amount; when it is empty they hold none.                  *)
(* findBestDeals computes the cheapest of the flights only.                *)
(***************************************************************************)
C22_LowestPricePerKind ==
  DealsReturned =>
    \A kind \in {"flights", "hotels", "transport"} :
      LET offers == input.merged[kind]
          lowest == SelectSeq(DealsFor("Lowest price"), LAMBDA d : d.type = DealType(kind))
      IN IF offers = <<>> THEN lowest = <<>>
         ELSE /\ lowest # <<>>
              /\ \A k \in 1..Len(lowest) :
                   /\ \E i \in 1..Len(offers) : offers[i] = lowest[k].item
                   /\ \A i \in 1..Len(offers) :
                        lowest[k].item.price.amount <= offers[i].price.amount

(***************************************************************************)
(* C23.  BestValue deal: when the merged hotels are non-empty there is     *)
(* exactly one deal "Best value (rating/price)"; its hotel has the largest *)
(* rating.value * rating.reviews / price.amount of the merged hotels and,  *)
(* of the hotels with that score, the lowest price.                        *)
(* The reduce of findBestDeals keeps the first hotel of the largest score. *)
(***************************************************************************)
\* score(a) >= score(b) and score(a) = score(b), for prices above 0
ScoreGeq(a, b) ==
  a.rating.value * a.rating.reviews * b.price.amount
    >= b.rating.value * b.rating.reviews * a.price.amount

ScoreEq(a, b) == ScoreGeq(a, b) /\ ScoreGeq(b, a)

HasFirstTime(h) == \E i \in 1..Len(h.specialOffers) : h.specialOffers[i].type = "first-time"

Passed == IF input.op = "findBestDeals" THEN input.merged ELSE input.xs

C25_MergeRankingPure ==
  (output.returned /\ input.op \in {"mergeDuplicates", "identifyBestDeals", "findBestDeals"})
  => output.argument = Passed

(***************************************************************************)
(* C26.  All-settled fan-out ordering: every provider call of a search is  *)
(* made before the search waits on any of them, the result is assembled    *)
(* only once every call made has settled, and no call is skipped because   *)
(* another rejected - the hub lookups made when flexible is true           *)
(* included.                                                               *)
(* findMultiCityRoutes makes its lookups one at a time, each after         *)
(* awaiting the one before, and skips the second lookup of a hub whose     *)
(* first rejected.                                                         *)
(***************************************************************************)
\* every provider call searchFlights has to make
CallsOf(flexible) == Range(FlightAdapters) \cup (IF flexible THEN Legs ELSE {})

\* this step is searchFlights returning
ReturnStep == output'.returned /\ ~output.returned

C26_AllSettledFanOut ==
  [][\A c \in CallIds :
       /\ DOMAIN st'[c] # DOMAIN st[c] => pc[c] = "idle"
       /\ ReturnStep =>
            /\ \A a \in DOMAIN st[c] : st[c][a] \in Settled
            /\ CallsOf(input.flexible) \subseteq DOMAIN st[c]]_vars

(***************************************************************************)
(* C29.  Multi-city failure isolation: in searchFlights with flexible      *)
(* true, the hubs are tried in list order and a hub is tried even when the *)
(* lookups of the hubs before it rejected; searchFlights is fulfilled,     *)
(* with the routes of the direct providers plus one combined route for     *)
(* each hub whose two lookups both returned a route, and nothing else.     *)
(***************************************************************************)
\* both lookups of hub h were made and returned a route
BothLegs(c, h) ==
  /\ LegOf(Hubs[h], 1) \in DOMAIN st[c] /\ st[c][LegOf(Hubs[h], 1)] = "batch"
  /\ LegOf(Hubs[h], 2) \in DOMAIN st[c] /\ st[c][LegOf(Hubs[h], 2)] = "batch"

\* r is the route via hub h: the first route of each lookup, joined
IsVia(r, h) ==
  LET route1 == RouteBatch(LegOf(Hubs[h], 1))[1]
      route2 == RouteBatch(LegOf(Hubs[h], 2))[1]
  IN /\ r.source = "multi-city"
     /\ r.segments = route1.segments \o route2.segments
     /\ r.totalPrice = route1.totalPrice + route2.totalPrice

\* the number of positions of seq that hold x
Occurrences(seq, x) == Cardinality({i \in 1..Len(seq) : seq[i] = x})

C29_MultiCityIsolation ==
  \A c \in CallIds :
    (input.op = "searchFlights" /\ input.flexible) =>
      \* list order: a hub is tried once the lookups of the one before it are over
      /\ \A h \in HubsTried(st[c]) :
           h > 1 => /\ (h - 1) \in HubsTried(st[c])
                    /\ \A leg \in {1, 2} :
                         LegOf(Hubs[h - 1], leg) \in DOMAIN st[c]
                           => st[c][LegOf(Hubs[h - 1], leg)] \in Settled
      /\ output.returned =>
           LET direct == Collect(FlightAdapters, st[c])
               via == {h \in 1..Len(Hubs) : BothLegs(c, h)}
           IN /\ output.status = "fulfilled"
              /\ HubsTried(st[c]) = 1..Len(Hubs)
              /\ Len(output.value) = Len(direct) + Cardinality(via)
              /\ \A i \in 1..Len(direct) :
                   Occurrences(output.value, direct[i]) = Occurrences(direct, direct[i])
              /\ \A h \in via : \E k \in 1..Len(output.value) : IsVia(output.value[k], h)

\* the lookup for the first hub rejected, the second hub gave a route, and a
\* direct provider returned routes
C29_Witness ==
  /\ output.returned /\ input.op = "searchFlights" /\ input.flexible
  /\ st[1][LegOf(Hubs[1], 1)] = "rejected"
  /\ BothLegs(1, 2)
  /\ st[1]["searchSkyscanner"] = "batch"
  /\ Len(output.value) = 3

(***************************************************************************)
(* C27.  Empty results are cached like any other: a search all of whose    *)
(* adapter calls failed or returned nothing stores its empty result; a     *)
(* search that finds the stored empty result less than cacheTTL after it   *)
(* was stored returns it and invokes no adapter; a search invokes adapters *)
(* only when its key has no entry (none stored yet, or clearCache called)  *)
(* or the entry is cacheTTL old or older.                                  *)
(***************************************************************************)
C27_EmptyResultsCached ==
  [][\A c \in CallIds :
       LET k == generateCacheKey(query'[c])
       IN /\ (JoinStep(c) /\ \A a \in DOMAIN st[c] : st[c][a] \in {"rejected", "empty"}) =>
               /\ ret'[c].status = "resolved"
               /\ AllEmpty(heap'[ret'[c].ref])
               /\ k \in DOMAIN cache'
               /\ cache'[k] = [data |-> ret'[c].ref, timestamp |-> now]
          /\ (/\ SearchStep(c)
              /\ k \in DOMAIN cache
              /\ AllEmpty(heap[cache[k].data])
              /\ now - cache[k].timestamp < cacheTTL) =>
               /\ ret'[c] = [status |-> "resolved", ref |-> cache[k].data]
               /\ invoked' = invoked
               /\ cache' = cache
          /\ (SearchStep(c) /\ invoked' # invoked) =>
               \/ k \notin DOMAIN cache
               \/ now - cache[k].timestamp >= cacheTTL]_vars

\* the second search returned the empty result the first one stored
C27_Witness ==
  \E c \in CallIds :
    /\ started[c] = 2
    /\ pc[c] = "done"
    /\ hit[c]
    /\ AllEmpty(heap[ret[c].ref])
    /\ heap[ret[c].ref].bestDeals = <<>>
    /\ cache[generateCacheKey(query[c])].data = ret[c].ref

(***************************************************************************)
(* C28.  State unchanged on error: a search that rejects changes no entry  *)
(* of the cache, neither when it starts its fan-out nor when it rejects,   *)
(* and the identical search the caller makes next runs the fan-out again.  *)
(***************************************************************************)
C28_CacheUnchangedOnError ==
  [][\A c \in CallIds :
       /\ (SearchStep(c) /\ pc'[c] = "waiting") => cache' = cache
       /\ (JoinStep(c) /\ ret'[c].status = "rejected") => cache' = cache
       /\ (SearchStep(c) /\ ret[c].status = "rejected" /\ query'[c] = query[c]) =>
            /\ pc'[c] = "waiting"
            /\ DOMAIN st'[c] = Invoked(query'[c])
            /\ invoked' = invoked + Cardinality(Invoked(query'[c]))]_vars

\* the second search is under way and the first one rejected: it stored and
\* allocated nothing
C28_Witness ==
  \E c \in CallIds :
    /\ started[c] = 2
    /\ pc[c] = "waiting"
    /\ heap = <<>>
    /\ cache = <<>>
    /\ query[c] = QFlight

(***************************************************************************)
(* C30.  clearCache and cache contents: the keys getCacheStats reports     *)
(* change only by a search completing with a store, which adds its key,    *)
(* and by clearCache, which leaves none, and size is their number; right   *)
(* after clearCache a search for any query is a miss that invokes its      *)
(* adapters, and when it completes with a store the entry is a new object  *)
(* stamped with the time of the store.                                     *)
(***************************************************************************)
\* this step is a call of clearCache
ClearStep == cache # <<>> /\ cache' = <<>>

\* this step is call c completing with a store
StoreStep(c) == JoinStep(c) /\ ret'[c].status = "resolved"

C30_ClearCacheContents ==
  [][/\ getCacheStats'.size = Cardinality(getCacheStats'.keys)
     /\ \/ getCacheStats'.keys = getCacheStats.keys
        \/ ClearStep /\ getCacheStats'.size = 0
        \/ \E c \in CallIds :
             /\ StoreStep(c)
             /\ getCacheStats'.keys = getCacheStats.keys \cup {generateCacheKey(query[c])}
     /\ \A c \in CallIds :
          /\ StoreStep(c) =>
               /\ generateCacheKey(query[c]) \in getCacheStats'.keys
               /\ cache'[generateCacheKey(query[c])] = [data |-> Len(heap) + 1, timestamp |-> now]
          /\ (SearchStep(c) /\ getCacheStats.size = 0) =>
               /\ ~hit'[c]
               /\ pc'[c] = "waiting"
               /\ invoked' = invoked + Cardinality(Invoked(query'[c]))]_vars

\* two results were stored less than cacheTTL apart and the cache holds the
\* second only, under the key the first was stored under too: clearCache was
\* called in between
C30_Witness ==
  \E c \in CallIds :
    /\ Len(heap) = 2
    /\ started[c] = 2
    /\ pc[c] = "done"
    /\ ~hit[c]
    /\ heap[2].lastUpdated - heap[1].lastUpdated < cacheTTL
    /\ heap[1].sources = heap[2].sources /\ heap[1].sources # <<>>
    /\ getCacheStats = [size |-> 1, keys |-> {generateCacheKey(query[c])}]
    /\ cache[generateCacheKey(query[c])].data = 2

====
